---- MODULE Spec2Model ----
(***************************************************************************)
(* Model of Asm::TimerObjectReactor (src/src/asm/timerobjectreactor.hpp):  *)
(* the constructor, the service thread run(), the destructor and the       *)
(* registerTimer / unregisterTimer calls of client threads, together with  *)
(* the kernel objects they use (eventfd, epoll instance, timer fds).       *)
(***************************************************************************)
EXTENDS Integers, Sequences, FiniteSets, TLC

\* ------------------------------------------------------------------ bounds
\* Number of client threads calling registerTimer / unregisterTimer.
NumClients == 2

\* --------------------------------------------------------- program constants
MAX_CAPACITY == 256
\* Initial value of _epfd and _evtfd, and the value a failed syscall returns.
InvalidFd == -1
\* The value the destructor writes to the stop handle.
StopValue == 1
\* Scheduling priorities: the one requested for the service thread, the one
\* of the threads the hub dispatches on (Observer in main.cpp), and the
\* default one (SCHED_OTHER).
RT_PRIO == 31
ObserverRT_PRIO == 30
DefaultPrio == 0
\* The priorities of the threads that may construct the instance: a thread
\* at the default priority, or one Observer::on_scheduler_entry has raised.
CreatorPrios == {DefaultPrio, ObserverRT_PRIO}

\* ------------------------------------------------------------ kernel handles
\* Descriptor numbers the kernel hands out: eventfd, epoll instance, timer.
EvtFdNo == 3
EpFdNo == 4
TimerFdNo == 5

\* The containers (DataObject<TimerObject>) of the application: dotA holds a
\* timer with a valid handle, dotBad one whose handle is invalid.
Containers == {"dotA", "dotBad"}
NoContainer == "none"
TimerFds == {TimerFdNo}

\* dot.get([](const TimerObject& t){ return t._fd; })
FdOf(c) == IF c = "dotA" THEN TimerFdNo ELSE InvalidFd

Clients == 1..NumClients

VARIABLES
  cpc,       \* position of the constructor
  dpc,       \* position of the destructor
  epfd,      \* _epfd
  evtfd,     \* _evtfd
  open,      \* kernel: descriptors among {EvtFdNo, EpFdNo} that are open
  interest,  \* kernel: interest list of the epoll instance
  evtCount,  \* kernel: counter of the eventfd
  expired,   \* kernel: timer handles with unread expirations
  notify,    \* _notify: handle -> container
  mtx,       \* _mtx: "free" or its holder
  tpc,       \* position of the service thread (_thrd) in run()
  prio,      \* scheduling priority of the service thread
  evt,       \* evt[0..evt_cnt-1] of the current epoll_wait
  i,         \* loop index of run(), 1-based
  ev,        \* what run() did for the event evt[i] so far
  itr,       \* the map node the iterator of run() points to, and whether
             \* unregisterTimer has returned for its handle since the lookup
  cl         \* per client thread: position, argument, locals, last result;
             \* had (a history field, kept by SpecSequential only): the
             \* handle was in the map when registerTimer began

vars == <<cpc, dpc, epfd, evtfd, open, interest, evtCount, expired, notify,
          mtx, tpc, prio, evt, i, ev, itr, cl>>

kernelVars == <<open, interest, evtCount, expired>>
threadVars == <<tpc, evt, i, ev, itr>>

NoEv == [fd |-> InvalidFd, full |-> FALSE, found |-> FALSE, cont |-> NoContainer,
         trig |-> 0, arg |-> NoContainer]
NoItr == [set |-> FALSE, live |-> FALSE, fd |-> InvalidFd, val |-> NoContainer,
          unreg |-> FALSE]
IdleClient == [pc |-> "idle", op |-> "none", c |-> NoContainer, ok |-> FALSE,
               had |-> FALSE, ret |-> "none"]

\* ------------------------------------------------------------------ helpers
\* A bool return value, as stored in the record of a finished call.
BoolStr(b) == IF b THEN "true" ELSE "false"

\* The empty std::unordered_map
EmptyMap == [x \in {} |-> 0]

\* std::unordered_map::erase(key)
MapErase(m, k) == [x \in DOMAIN m \ {k} |-> m[x]]

\* std::unordered_map::insert({key, value}): keeps an existing entry
MapInsert(m, k, v) == IF k \in DOMAIN m THEN m
                      ELSE [x \in DOMAIN m \cup {k} |-> IF x = k THEN v ELSE m[x]]

\* A descriptor that refers to an open file: a timer handle, or an open
\* eventfd / epoll descriptor.
ValidFd(fd) == fd \in TimerFds \/ fd \in open

\* ::epoll_ctl(_epfd, EPOLL_CTL_ADD, fd, &evt) >= 0.  nospc: the kernel is
\* out of watches or memory (ENOSPC, ENOMEM).
EpollAddOk(fd, nospc) ==
  /\ epfd \in open /\ epfd = EpFdNo
  /\ ValidFd(fd)
  /\ fd \notin interest
  /\ ~nospc

\* ::epoll_ctl(_epfd, EPOLL_CTL_DEL, fd, 0) >= 0
EpollDelOk(fd) ==
  /\ epfd \in open /\ epfd = EpFdNo
  /\ fd \in interest

\* Handles of the interest list that are readable (level triggered EPOLLIN).
Ready == {fd \in interest : \/ fd = EvtFdNo /\ evtCount > 0
                            \/ fd \in expired}

Min(a, b) == IF a < b THEN a ELSE b

\* The event arrays epoll_wait may return: the ready handles, at most
\* MAX_CAPACITY of them, in the order the kernel reports them.
Batches(ready) ==
  LET n == Min(Cardinality(ready), MAX_CAPACITY)
  IN {s \in [1..n -> ready] : \A a, b \in 1..n : a # b => s[a] # s[b]}

ArmedTimers == interest \ {EvtFdNo}

InCall(t) == cl[t].pc # "idle"
NoCallInProgress == \A t \in Clients : ~InCall(t)
ConstructionDone == cpc \in {"done", "failed"}
ThreadAlive == tpc \notin {"none", "exited"}

TypeOK ==
  /\ cpc \in {"eventfd", "epoll_create", "add_stop", "spawn", "setsched",
              "done", "failed", "thrown"}
  /\ dpc \in {"idle", "join", "close_evt", "close_ep", "done", "terminated"}
  /\ epfd \in {InvalidFd, EpFdNo}
  /\ evtfd \in {InvalidFd, EvtFdNo}
  /\ open \subseteq {EvtFdNo, EpFdNo}
  /\ interest \subseteq TimerFds \cup {EvtFdNo}
  /\ evtCount \in 0..StopValue
  /\ expired \subseteq TimerFds
  /\ DOMAIN notify \subseteq TimerFds \cup {InvalidFd}
  /\ \A k \in DOMAIN notify : notify[k] \in Containers
  /\ mtx \in {"free", "tor"}
  /\ tpc \in {"none", "wait", "read", "lock", "find", "call", "trigger", "next", "exited"}
  /\ prio \in CreatorPrios \cup {RT_PRIO}

\* --------------------------------------------------------------------- Init
\* The member initialisers: _epfd(-1), _evtfd(-1), an empty map, no thread.
Init ==
  /\ cpc = "eventfd"
  /\ dpc = "idle"
  /\ epfd = InvalidFd
  /\ evtfd = InvalidFd
  /\ open = {}
  /\ interest = {}
  /\ evtCount = 0
  /\ expired = {}
  /\ notify = EmptyMap
  /\ mtx = "free"
  /\ tpc = "none"
  /\ prio = DefaultPrio
  /\ evt = << >>
  /\ i = 0
  /\ ev = NoEv
  /\ itr = NoItr
  /\ cl = [t \in Clients |-> IdleClient]

\* -------------------------------------------------------------- constructor
\* _evtfd = ::eventfd(0, EFD_CLOEXEC); a failure returns at once.
CtorEventfd(ok) ==
  /\ cpc = "eventfd"
  /\ IF ok
       THEN /\ evtfd' = EvtFdNo
            /\ open' = open \cup {EvtFdNo}
            /\ cpc' = "epoll_create"
       ELSE /\ evtfd' = InvalidFd
            /\ open' = open
            /\ cpc' = "failed"
  /\ UNCHANGED <<prio, dpc, epfd, interest, evtCount, expired, notify, mtx,
                 threadVars, cl>>

\* _epfd = ::epoll_create1(EPOLL_CLOEXEC); a failure closes _evtfd, which
\* keeps its value.
CtorEpollCreate(ok) ==
  /\ cpc = "epoll_create"
  /\ IF ok
       THEN /\ epfd' = EpFdNo
            /\ open' = open \cup {EpFdNo}
            /\ cpc' = "add_stop"
       ELSE /\ epfd' = InvalidFd
            /\ open' = open \ {evtfd}
            /\ cpc' = "failed"
  /\ UNCHANGED <<prio, dpc, evtfd, interest, evtCount, expired, notify, mtx,
                 threadVars, cl>>

\* Mutant of CtorAddStop: the failure branch lacks its return and goes on to
\* start the thread.
CtorAddStop_NoReturn(nospc) ==
  /\ cpc = "add_stop"
  /\ IF EpollAddOk(evtfd, nospc)
       THEN /\ interest' = interest \cup {evtfd}
            /\ open' = open
            /\ cpc' = "spawn"
            /\ tpc' = tpc
       ELSE /\ interest' = {}
            /\ open' = (open \ {epfd}) \ {evtfd}
            /\ cpc' = "failed"
            /\ tpc' = "wait"
  /\ UNCHANGED <<prio, dpc, epfd, evtfd, evtCount, expired, notify, mtx,
                 evt, i, ev, itr, cl>>

\* ::epoll_ctl(_epfd, EPOLL_CTL_ADD, _evtfd, &evt); a failure closes both
\* descriptors, which keep their values.
CtorAddStop(nospc) ==
  /\ cpc = "add_stop"
  /\ IF EpollAddOk(evtfd, nospc)
       THEN /\ interest' = interest \cup {evtfd}
            /\ open' = open
            /\ cpc' = "spawn"
       ELSE /\ interest' = {}
            /\ open' = (open \ {epfd}) \ {evtfd}
            /\ cpc' = "failed"
  /\ UNCHANGED <<prio, dpc, epfd, evtfd, evtCount, expired, notify, mtx,
                 threadVars, cl>>

\* _thrd = std::thread([this](){ TimerObjectReactor::run(); }); the new
\* thread inherits the scheduling priority of the thread that creates it
\* (inherited) and runs from here on.  ok: the thread could be created;
\* otherwise std::thread throws std::system_error out of the constructor:
\* no instance comes to exist, no destructor runs, and the two descriptors
\* stay open.
CtorSpawn(ok, inherited) ==
  /\ cpc = "spawn"
  /\ IF ok
       THEN /\ tpc' = "wait"
            /\ prio' = inherited
            /\ cpc' = "setsched"
       ELSE /\ tpc' = tpc
            /\ prio' = prio
            /\ cpc' = "thrown"
  /\ UNCHANGED <<dpc, epfd, evtfd, kernelVars, notify, mtx, evt, i, ev, itr,
                 cl>>

\* pthread_setname_np(..), then param.sched_priority = RT_PRIO;
\* pthread_setschedparam(_thrd.native_handle(), SCHED_FIFO, &param), beside
\* the running thread.  rt: the call succeeds; a failure is logged and
\* leaves the thread at the priority it has.  Neither call fails the
\* construction.
CtorSetSched(rt) ==
  /\ cpc = "setsched"
  /\ prio' = IF rt THEN RT_PRIO ELSE prio
  /\ cpc' = "done"
  /\ UNCHANGED <<dpc, epfd, evtfd, kernelVars, notify, mtx, threadVars, cl>>

\* --------------------------------------------------------------- destructor
\* Mutant of DtorWrite: the stop sentinel is not written.
DtorWrite_NoStop ==
  /\ dpc = "idle"
  /\ ConstructionDone
  /\ dpc' = "join"
  /\ UNCHANGED <<prio, cpc, epfd, evtfd, kernelVars, notify, mtx, threadVars, cl>>

\* The destructor begins: ::write(_evtfd, &stop, sizeof(stop)); on a
\* descriptor that is not open the write fails and is only logged.
DtorWrite ==
  /\ dpc = "idle"
  /\ ConstructionDone
  /\ evtCount' = IF evtfd \in open THEN StopValue ELSE evtCount
  /\ dpc' = "join"
  /\ UNCHANGED <<prio, cpc, epfd, evtfd, open, interest, expired, notify, mtx,
                 threadVars, cl>>

\* Mutant of DtorJoin: the destructor goes on without joining the thread.
DtorJoin_NoWait ==
  /\ dpc = "join"
  /\ dpc' = "close_evt"
  /\ UNCHANGED <<prio, cpc, epfd, evtfd, kernelVars, notify, mtx, threadVars, cl>>

\* _thrd.join(): waits until run() has returned.  On a thread that was never
\* started join() throws std::system_error out of the destructor, which
\* ends the process in std::terminate.
DtorJoin ==
  /\ dpc = "join"
  /\ IF tpc = "none"
       THEN dpc' = "terminated"
       ELSE /\ tpc = "exited"
            /\ dpc' = "close_evt"
  /\ UNCHANGED <<prio, cpc, epfd, evtfd, kernelVars, notify, mtx, threadVars, cl>>

\* if (_evtfd >= 0) ::close(_evtfd);
DtorCloseEvt ==
  /\ dpc = "close_evt"
  /\ open' = IF evtfd >= 0 THEN open \ {evtfd} ELSE open
  /\ interest' = IF evtfd >= 0 THEN interest \ {evtfd} ELSE interest
  /\ dpc' = "close_ep"
  /\ UNCHANGED <<prio, cpc, epfd, evtfd, evtCount, expired, notify, mtx,
                 threadVars, cl>>

\* if (_epfd >= 0) ::close(_epfd); the interest list goes with the instance.
DtorCloseEp ==
  /\ dpc = "close_ep"
  /\ open' = IF epfd >= 0 THEN open \ {epfd} ELSE open
  /\ interest' = IF epfd >= 0 THEN {} ELSE interest
  /\ notify' = EmptyMap
  /\ dpc' = "done"
  /\ UNCHANGED <<prio, cpc, epfd, evtfd, evtCount, expired, mtx, threadVars, cl>>

\* ----------------------------------------------------------- service thread
\* evt_cnt = ::epoll_wait(_epfd, &evt[0], MAX_CAPACITY, -1) with evt_cnt > 0
RunWait(batch) ==
  /\ tpc = "wait"
  /\ epfd \in open
  /\ batch \in Batches(Ready)
  /\ Len(batch) > 0
  /\ evt' = batch
  /\ i' = 1
  /\ tpc' = "read"
  /\ UNCHANGED <<prio, cpc, dpc, epfd, evtfd, kernelVars, notify, mtx, ev, itr, cl>>

\* Mutant of RunWaitError: a wait error ends run() (return in place of
\* continue).
RunWaitError_Returns ==
  /\ tpc = "wait"
  /\ tpc' = "exited"
  /\ UNCHANGED <<prio, cpc, dpc, epfd, evtfd, kernelVars, notify, mtx, evt, i, ev,
                 itr, cl>>

\* evt_cnt <= 0 (an interrupted wait): logged, continue with the next
\* epoll_wait; nothing changes.
RunWaitError ==
  /\ tpc = "wait"
  /\ tpc' = "wait"
  /\ UNCHANGED <<prio, cpc, dpc, epfd, evtfd, kernelVars, notify, mtx, evt, i, ev,
                 itr, cl>>

\* Mutant of RunRead: the stop command ends the handling of its event only
\* (continue in place of return).
RunRead_StopContinues(short) ==
  /\ tpc = "read"
  /\ LET fd == evt[i] IN
     IF short
       THEN /\ ev' = [NoEv EXCEPT !.fd = fd]
            /\ tpc' = "next"
            /\ UNCHANGED <<evtCount, expired>>
       ELSE /\ fd \in expired \/ (fd = EvtFdNo /\ fd \in open /\ evtCount > 0)
            /\ LET elapsed == IF fd = EvtFdNo THEN evtCount ELSE 1 IN
               /\ evtCount' = IF fd = EvtFdNo THEN 0 ELSE evtCount
               /\ expired' = expired \ {fd}
               /\ ev' = [NoEv EXCEPT !.fd = fd, !.full = TRUE]
               /\ tpc' = IF fd = evtfd /\ elapsed > 0 THEN "next" ELSE "lock"
  /\ UNCHANGED <<prio, cpc, dpc, epfd, evtfd, open, interest, notify, mtx, evt, i,
                 itr, cl>>

\* Mutant of RunRead: the short read lacks its continue and falls through to
\* the lookup.
RunRead_NoContinue(short) ==
  /\ tpc = "read"
  /\ LET fd == evt[i] IN
     IF short
       THEN /\ ev' = [NoEv EXCEPT !.fd = fd]
            /\ tpc' = "lock"
            /\ UNCHANGED <<evtCount, expired>>
       ELSE /\ fd \in expired \/ (fd = EvtFdNo /\ fd \in open /\ evtCount > 0)
            /\ LET elapsed == IF fd = EvtFdNo THEN evtCount ELSE 1 IN
               /\ evtCount' = IF fd = EvtFdNo THEN 0 ELSE evtCount
               /\ expired' = expired \ {fd}
               /\ ev' = [NoEv EXCEPT !.fd = fd, !.full = TRUE]
               /\ tpc' = IF fd = evtfd /\ elapsed > 0 THEN "exited" ELSE "lock"
  /\ UNCHANGED <<prio, cpc, dpc, epfd, evtfd, open, interest, notify, mtx, evt, i,
                 itr, cl>>

\* ::read(evt[i].data.fd, &elapsed, sizeof(elapsed)) and the two tests that
\* follow it.  A read of a handle with nothing to read blocks.
RunRead(short) ==
  /\ tpc = "read"
  /\ LET fd == evt[i] IN
     IF short
       THEN /\ ev' = [NoEv EXCEPT !.fd = fd]
            /\ tpc' = "next"
            /\ UNCHANGED <<evtCount, expired>>
       ELSE /\ fd \in expired \/ (fd = EvtFdNo /\ fd \in open /\ evtCount > 0)
            /\ LET elapsed == IF fd = EvtFdNo THEN evtCount ELSE 1 IN
               /\ evtCount' = IF fd = EvtFdNo THEN 0 ELSE evtCount
               /\ expired' = expired \ {fd}
               /\ ev' = [NoEv EXCEPT !.fd = fd, !.full = TRUE]
               /\ tpc' = IF fd = evtfd /\ elapsed > 0 THEN "exited" ELSE "lock"
  /\ UNCHANGED <<prio, cpc, dpc, epfd, evtfd, open, interest, notify, mtx, evt, i,
                 itr, cl>>

\* std::unique_lock<std::mutex> lock(_mtx);
RunLock ==
  /\ tpc = "lock"
  /\ mtx = "free"
  /\ mtx' = "tor"
  /\ tpc' = "find"
  /\ UNCHANGED <<prio, cpc, dpc, epfd, evtfd, kernelVars, notify, evt, i, ev, itr,
                 cl>>

\* Mutant of RunFind: the lock is not released before the call into the hub.
RunFind_NoUnlock ==
  /\ tpc = "find"
  /\ LET fd == evt[i] IN
     IF fd \in DOMAIN notify
       THEN /\ itr' = [set |-> TRUE, live |-> TRUE, fd |-> fd, val |-> notify[fd],
                         unreg |-> FALSE]
            /\ ev' = [ev EXCEPT !.found = TRUE, !.cont = notify[fd]]
            /\ tpc' = "call"
            /\ mtx' = "tor"
       ELSE /\ itr' = NoItr
            /\ ev' = ev
            /\ tpc' = "next"
            /\ mtx' = "free"
  /\ UNCHANGED <<prio, cpc, dpc, epfd, evtfd, kernelVars, notify, evt, i, cl>>

\* auto itr = _notify.find(evt[i].data.fd); found: lock.unlock(); not found:
\* the lock is released at the end of the block.
RunFind ==
  /\ tpc = "find"
  /\ LET fd == evt[i] IN
     IF fd \in DOMAIN notify
       THEN /\ itr' = [set |-> TRUE, live |-> TRUE, fd |-> fd, val |-> notify[fd],
                         unreg |-> FALSE]
            /\ ev' = [ev EXCEPT !.found = TRUE, !.cont = notify[fd]]
            /\ tpc' = "call"
       ELSE /\ itr' = NoItr
            /\ ev' = ev
            /\ tpc' = "next"
  /\ mtx' = "free"
  /\ UNCHANGED <<prio, cpc, dpc, epfd, evtfd, kernelVars, notify, evt, i, cl>>

\* _dor.trigger(itr->second.get()): the node is read after the unlock, and
\* control enters the hub.
RunTriggerCall ==
  /\ tpc = "call"
  /\ ev' = [ev EXCEPT !.trig = ev.trig + 1, !.arg = itr.val]
  /\ itr' = NoItr
  /\ tpc' = "trigger"
  /\ UNCHANGED <<prio, cpc, dpc, epfd, evtfd, kernelVars, notify, mtx, evt, i, cl>>

\* The hub's trigger returns.
RunTriggerReturn ==
  /\ tpc = "trigger"
  /\ tpc' = "next"
  /\ UNCHANGED <<prio, cpc, dpc, epfd, evtfd, kernelVars, notify, mtx, evt, i, ev,
                 itr, cl>>

\* i++ of the for loop, and back to epoll_wait after the last event.
RunNext ==
  /\ tpc = "next"
  /\ ev' = NoEv
  /\ IF i < Len(evt)
       THEN /\ i' = i + 1
            /\ evt' = evt
            /\ tpc' = "read"
       ELSE /\ i' = 0
            /\ evt' = << >>
            /\ tpc' = "wait"
  /\ UNCHANGED <<prio, cpc, dpc, epfd, evtfd, kernelVars, notify, mtx, itr, cl>>

Run ==
  \/ \E batch \in Batches(Ready) : RunWait(batch)
  \/ RunWaitError
  \/ \E short \in BOOLEAN : RunRead(short)
  \/ RunLock
  \/ RunFind
  \/ RunTriggerCall
  \/ RunTriggerReturn
  \/ RunNext

\* ------------------------------------------------------------ client threads
\* Another client thread is inside a call on the same handle.
OtherCallOn(t, fd) ==
  \E u \in Clients \ {t} : InCall(u) /\ FdOf(cl[u].c) = fd

\* A call may begin on a constructed instance before its destruction begins;
\* the calls in flight then run on beside the destructor.
CallMayBegin(t) ==
  /\ cl[t].pc = "idle"
  /\ ConstructionDone
  /\ dpc = "idle"

\* A call in flight goes on at position pc, beside the destructor and after
\* its return, until std::terminate ends the process.  After the return of
\* the destructor the call works on destroyed members: it runs to its end,
\* takes the mutex nobody holds, finds the epoll handle closed, and the map
\* it inserts into or erases from is no member of a living instance.
CallGoesOn(t, pc) ==
  /\ cl[t].pc = pc
  /\ dpc # "terminated"

\* insert({fd, dot}) builds its node before it looks the key up (and frees
\* it again when the key is present).  The allocator may hand it the node
\* freed by an erase: an iterator left dangling by the erase then reads the
\* value written by the insert, whether or not the insert adds an entry.
\* An insert of the iterator's handle registers that handle again.
NodeAfterInsert(fd, c, reuse) ==
  LET reused == itr.set /\ ~itr.live /\ reuse
  IN [itr EXCEPT !.val = IF reused THEN c ELSE @,
                 !.unreg = IF itr.set /\ itr.fd = fd THEN FALSE ELSE @]

\* An erase frees the node of its key: an iterator to it dangles.
\* unregister: the erase is the one of unregisterTimer, which then returns.
NodeAfterErase(fd, unregister) ==
  LET freed == itr.set /\ itr.live /\ itr.fd = fd /\ fd \in DOMAIN notify
  IN [itr EXCEPT !.live = IF freed THEN FALSE ELSE @,
                 !.unreg = IF itr.set /\ itr.fd = fd /\ unregister THEN TRUE ELSE @]

\* registerTimer is entered: int fd = dot.get(...); epoll_event evt {...};
\* The caller has yet to take _mtx.
RegisterTimerBegin(t, c) ==
  /\ CallMayBegin(t)
  /\ cl' = [cl EXCEPT ![t] = [pc |-> "r_insert", op |-> "reg", c |-> c,
                              ok |-> FALSE, had |-> FALSE, ret |-> "none"]]
  /\ UNCHANGED <<prio, cpc, dpc, epfd, evtfd, kernelVars, notify, mtx, threadVars>>

\* registerTimer: { lock_guard lock(_mtx); _notify.insert({ fd, dot }); }
\* The caller waits while the service thread holds _mtx; the destructor may
\* have written the stop, or have returned, by the time it inserts.  notify
\* is the map of the living instance: it stays empty once _notify is
\* destroyed.
RegisterTimerInsert(t, reuse) ==
  /\ CallGoesOn(t, "r_insert")
  /\ mtx = "free"
  /\ LET fd == FdOf(cl[t].c) IN
     /\ notify' = IF dpc = "done" THEN notify ELSE MapInsert(notify, fd, cl[t].c)
     /\ itr' = NodeAfterInsert(fd, cl[t].c, reuse)
  /\ cl' = [cl EXCEPT ![t].pc = "r_arm"]
  /\ UNCHANGED <<prio, cpc, dpc, epfd, evtfd, kernelVars, mtx, tpc, evt, i, ev>>

\* Mutant of RegisterTimerArm: the result of epoll_ctl is ignored.
RegisterTimerArm_IgnoreError(t, nospc) ==
  /\ CallGoesOn(t, "r_arm")
  /\ LET fd == FdOf(cl[t].c) IN
     interest' = IF EpollAddOk(fd, nospc) THEN interest \cup {fd} ELSE interest
  /\ cl' = [cl EXCEPT ![t] = [IdleClient EXCEPT !.op = "reg", !.ret = "true"]]
  /\ UNCHANGED <<prio, cpc, dpc, epfd, evtfd, open, evtCount, expired, notify, mtx,
                 threadVars>>

\* registerTimer: ::epoll_ctl(_epfd, EPOLL_CTL_ADD, fd, &evt); success
\* returns true.
RegisterTimerArm(t, nospc) ==
  /\ CallGoesOn(t, "r_arm")
  /\ LET fd == FdOf(cl[t].c) IN
     IF EpollAddOk(fd, nospc)
       THEN /\ interest' = interest \cup {fd}
            /\ cl' = [cl EXCEPT ![t] = [IdleClient EXCEPT !.op = "reg", !.ret = "true"]]
       ELSE /\ interest' = interest
            /\ cl' = [cl EXCEPT ![t].pc = "r_rollback"]
  /\ UNCHANGED <<prio, cpc, dpc, epfd, evtfd, open, evtCount, expired, notify, mtx,
                 threadVars>>

\* Mutant of RegisterTimerRollback: the entry is not erased.
RegisterTimerRollback_NoErase(t) ==
  /\ CallGoesOn(t, "r_rollback")
  /\ mtx = "free"
  /\ cl' = [cl EXCEPT ![t] = [IdleClient EXCEPT !.op = "reg", !.ret = "false"]]
  /\ UNCHANGED <<prio, cpc, dpc, epfd, evtfd, kernelVars, notify, mtx, threadVars>>

\* registerTimer, arming failed: { lock_guard lock(_mtx); _notify.erase(fd); }
\* then return false.
RegisterTimerRollback(t) ==
  /\ CallGoesOn(t, "r_rollback")
  /\ mtx = "free"
  /\ LET fd == FdOf(cl[t].c) IN
     /\ notify' = MapErase(notify, fd)
     /\ itr' = NodeAfterErase(fd, FALSE)
  /\ cl' = [cl EXCEPT ![t] = [IdleClient EXCEPT !.op = "reg", !.ret = "false"]]
  /\ UNCHANGED <<prio, cpc, dpc, epfd, evtfd, kernelVars, mtx, tpc, evt, i, ev>>

\* unregisterTimer is entered: bool ret = true; int fd = dot.get(...);
UnregisterTimerBegin(t, c) ==
  /\ CallMayBegin(t)
  /\ cl' = [cl EXCEPT ![t] = [pc |-> "u_del", op |-> "unreg", c |-> c,
                              ok |-> TRUE, had |-> FALSE, ret |-> "none"]]
  /\ UNCHANGED <<prio, cpc, dpc, epfd, evtfd, kernelVars, notify, mtx, threadVars>>

\* unregisterTimer: ::epoll_ctl(_epfd, EPOLL_CTL_DEL, fd, 0); ret = false
\* when it fails.
UnregisterTimerDel(t) ==
  /\ CallGoesOn(t, "u_del")
  /\ LET fd == FdOf(cl[t].c) IN
     /\ interest' = IF EpollDelOk(fd) THEN interest \ {fd} ELSE interest
     /\ cl' = [cl EXCEPT ![t].pc = "u_erase", ![t].ok = EpollDelOk(fd)]
  /\ UNCHANGED <<prio, cpc, dpc, epfd, evtfd, open, evtCount, expired, notify, mtx,
                 threadVars>>

\* Mutant of UnregisterTimerErase: the entry is erased only when the disarm
\* succeeded.
UnregisterTimerErase_OnlyOnSuccess(t) ==
  /\ CallGoesOn(t, "u_erase")
  /\ mtx = "free"
  /\ LET fd == FdOf(cl[t].c) IN
     /\ notify' = IF cl[t].ok THEN MapErase(notify, fd) ELSE notify
     /\ itr' = IF cl[t].ok THEN NodeAfterErase(fd, TRUE) ELSE itr
  /\ cl' = [cl EXCEPT ![t] = [IdleClient EXCEPT !.op = "unreg", !.ret = BoolStr(cl[t].ok)]]
  /\ UNCHANGED <<prio, cpc, dpc, epfd, evtfd, kernelVars, mtx, tpc, evt, i, ev>>

\* unregisterTimer: { lock_guard lock(_mtx); _notify.erase(fd); } return ret;
UnregisterTimerErase(t) ==
  /\ CallGoesOn(t, "u_erase")
  /\ mtx = "free"
  /\ LET fd == FdOf(cl[t].c) IN
     /\ notify' = MapErase(notify, fd)
     /\ itr' = NodeAfterErase(fd, TRUE)
  /\ cl' = [cl EXCEPT ![t] = [IdleClient EXCEPT !.op = "unreg", !.ret = BoolStr(cl[t].ok)]]
  /\ UNCHANGED <<prio, cpc, dpc, epfd, evtfd, kernelVars, mtx, tpc, evt, i, ev>>

\* ------------------------------------------------------------------- timers
\* A timer expires: its handle becomes readable.
TimerFire(fd) ==
  /\ ConstructionDone
  /\ fd \notin expired
  /\ expired' = expired \cup {fd}
  /\ UNCHANGED <<prio, cpc, dpc, epfd, evtfd, open, interest, evtCount, notify, mtx,
                 threadVars, cl>>

\* --------------------------------------------------------------------- Next
\* The process is allowed to set real-time priorities (CAP_SYS_NICE): the
\* priority of the service thread changes nothing else in the instance.
\* CtorUnprivileged is the constructor in a process that may lack it.
Ctor ==
  \/ \E ok \in BOOLEAN : CtorEventfd(ok)
  \/ \E ok \in BOOLEAN : CtorEpollCreate(ok)
  \/ \E nospc \in BOOLEAN : CtorAddStop(nospc)
  \/ \E ok \in BOOLEAN, inherited \in CreatorPrios : CtorSpawn(ok, inherited)
  \/ CtorSetSched(TRUE)

CtorUnprivileged ==
  \/ \E ok \in BOOLEAN : CtorEventfd(ok)
  \/ \E ok \in BOOLEAN : CtorEpollCreate(ok)
  \/ \E nospc \in BOOLEAN : CtorAddStop(nospc)
  \/ \E ok \in BOOLEAN, inherited \in CreatorPrios : CtorSpawn(ok, inherited)
  \/ \E rt \in BOOLEAN : CtorSetSched(rt)

Dtor ==
  \/ DtorWrite
  \/ DtorJoin
  \/ DtorCloseEvt
  \/ DtorCloseEp

\* The steps of a call that has been entered.
CallSteps(t) ==
  \/ \E reuse \in BOOLEAN : RegisterTimerInsert(t, reuse)
  \/ \E nospc \in BOOLEAN : RegisterTimerArm(t, nospc)
  \/ RegisterTimerRollback(t)
  \/ UnregisterTimerDel(t)
  \/ UnregisterTimerErase(t)

Client(t) ==
  \/ \E c \in Containers : RegisterTimerBegin(t, c)
  \/ \E c \in Containers : UnregisterTimerBegin(t, c)
  \/ CallSteps(t)

Next ==
  \/ Ctor
  \/ Dtor
  \/ Run
  \/ \E t \in Clients : Client(t)
  \/ \E fd \in TimerFds : TimerFire(fd)

Spec == Init /\ [][Next]_vars

\* Client threads that call on distinct handles only: no call begins on a
\* handle another call is working on, and registerTimer is not called again
\* on a handle that is registered.
DistinctCall(t, c, register) ==
  /\ ~OtherCallOn(t, FdOf(c))
  /\ register => (FdOf(c) \notin DOMAIN notify /\ FdOf(c) \notin interest)

ClientDistinct(t) ==
  \/ \E c \in Containers : DistinctCall(t, c, TRUE) /\ RegisterTimerBegin(t, c)
  \/ \E c \in Containers : DistinctCall(t, c, FALSE) /\ UnregisterTimerBegin(t, c)
  \/ CallSteps(t)

NextDistinct ==
  \/ Ctor
  \/ Dtor
  \/ Run
  \/ \E t \in Clients : ClientDistinct(t)
  \/ \E fd \in TimerFds : TimerFire(fd)

SpecDistinct == Init /\ [][NextDistinct]_vars

\* The scheduler runs the service thread and the thread that destroys the
\* instance whenever they can take a step, and hub calls return.  A short
\* read of the stop handle is transient: read again and again, it is read
\* in full at some point.
RunReadFull(fd) == RunRead(FALSE) /\ evt[i] = fd

LiveSpec ==
  /\ Spec
  /\ WF_vars(Run)
  /\ WF_vars(Dtor)
  /\ SF_vars(RunReadFull(EvtFdNo))

\* The instance in a process that may lack the privilege to set real-time
\* priorities.
NextUnprivileged ==
  \/ CtorUnprivileged
  \/ Dtor
  \/ Run
  \/ \E t \in Clients : Client(t)
  \/ \E fd \in TimerFds : TimerFire(fd)

SpecUnprivileged == Init /\ [][NextUnprivileged]_vars

\* Client threads that call one after another: a call begins only when no
\* other call is in progress.  registerTimer also notes in the history field
\* had whether its handle was in the map when the call began.
RegisterTimerBeginTracked(t, c) ==
  /\ CallMayBegin(t)
  /\ cl' = [cl EXCEPT ![t] = [pc |-> "r_insert", op |-> "reg", c |-> c,
                              ok |-> FALSE, had |-> FdOf(c) \in DOMAIN notify,
                              ret |-> "none"]]
  /\ UNCHANGED <<prio, cpc, dpc, epfd, evtfd, kernelVars, notify, mtx, threadVars>>

ClientSequential(t) ==
  \/ \E c \in Containers : NoCallInProgress /\ RegisterTimerBeginTracked(t, c)
  \/ \E c \in Containers : NoCallInProgress /\ UnregisterTimerBegin(t, c)
  \/ CallSteps(t)

NextSequential ==
  \/ Ctor
  \/ Dtor
  \/ Run
  \/ \E t \in Clients : ClientSequential(t)
  \/ \E fd \in TimerFds : TimerFire(fd)

SpecSequential == Init /\ [][NextSequential]_vars

\* ------------------------------------------- the build without __linux__
\* Everything between #ifdef __linux__ and #endif is compiled out: the
\* constructor and the destructor only run their member initialisers and
\* log, no thread is started, and the two calls read the handle and return.
\* The record of a finished call keeps its argument here.
CtorPortable ==
  /\ cpc = "eventfd"
  /\ cpc' = "done"
  /\ UNCHANGED <<prio, dpc, epfd, evtfd, kernelVars, notify, mtx, threadVars, cl>>

\* ~TimerObjectReactor(): Logger::pLOG->info("Delete TOR"); uint64_t stop = 1;
DtorPortable ==
  /\ dpc = "idle"
  /\ ConstructionDone
  /\ dpc' = "done"
  /\ UNCHANGED <<prio, cpc, epfd, evtfd, kernelVars, notify, mtx, threadVars, cl>>

\* registerTimer: int fd = dot.get(...);
RegisterTimerPortableGet(t, c) ==
  /\ CallMayBegin(t)
  /\ cl' = [cl EXCEPT ![t] = [pc |-> "r_ret", op |-> "reg", c |-> c,
                              ok |-> FALSE, had |-> FALSE, ret |-> "none"]]
  /\ UNCHANGED <<prio, cpc, dpc, epfd, evtfd, kernelVars, notify, mtx, threadVars>>

\* registerTimer: return true;
RegisterTimerPortableReturn(t) ==
  /\ cl[t].pc = "r_ret"
  /\ cl' = [cl EXCEPT ![t].pc = "idle", ![t].ret = "true"]
  /\ UNCHANGED <<prio, cpc, dpc, epfd, evtfd, kernelVars, notify, mtx, threadVars>>

\* unregisterTimer: bool ret = true; int fd = dot.get(...);
UnregisterTimerPortableGet(t, c) ==
  /\ CallMayBegin(t)
  /\ cl' = [cl EXCEPT ![t] = [pc |-> "u_ret", op |-> "unreg", c |-> c,
                              ok |-> TRUE, had |-> FALSE, ret |-> "none"]]
  /\ UNCHANGED <<prio, cpc, dpc, epfd, evtfd, kernelVars, notify, mtx, threadVars>>

\* unregisterTimer: return ret;
UnregisterTimerPortableReturn(t) ==
  /\ cl[t].pc = "u_ret"
  /\ cl' = [cl EXCEPT ![t].pc = "idle", ![t].ret = BoolStr(cl[t].ok)]
  /\ UNCHANGED <<prio, cpc, dpc, epfd, evtfd, kernelVars, notify, mtx, threadVars>>

ClientPortable(t) ==
  \/ \E c \in Containers : RegisterTimerPortableGet(t, c)
  \/ RegisterTimerPortableReturn(t)
  \/ \E c \in Containers : UnregisterTimerPortableGet(t, c)
  \/ UnregisterTimerPortableReturn(t)

NextPortable ==
  \/ CtorPortable
  \/ DtorPortable
  \/ \E t \in Clients : ClientPortable(t)

SpecPortable == Init /\ [][NextPortable]_vars

\* ------------------------------------------------------------------- claims
Registered == DOMAIN notify
Destroyed == dpc = "done"
Returns(t) == cl[t].pc # "idle" /\ cl'[t].pc = "idle"

\* C1: with calls on distinct handles, whenever no registerTimer or
\* unregisterTimer call is in progress on a live instance, the key set of
\* _notify is exactly the set of timer handles armed in the epoll instance.
C1_MapEqualsArmed ==
  (NoCallInProgress /\ ~Destroyed) => Registered = ArmedTimers

C1_Witness ==
  /\ NoCallInProgress
  /\ cpc = "done"
  /\ Registered = {TimerFdNo}
  /\ ArmedTimers = {TimerFdNo}
  /\ \E t \in Clients : cl[t].op = "reg" /\ cl[t].ret = "false"

\* C2: once unregisterTimer(A) has returned (and A was not registered again)
\* the service thread starts no trigger call for an event of A, also when
\* the event was fetched and looked up before.
C2_NoTriggerAfterUnregister ==
  [][(tpc = "call" /\ tpc' = "trigger") => ~itr.unreg]_vars

\* C3: an event read in full whose handle is in the map at lookup time ends
\* with exactly one trigger call, made for the container of that handle.
C3_ExactlyOneTrigger ==
  (tpc = "next" /\ ev.full /\ ev.found) => (ev.trig = 1 /\ ev.arg = ev.cont)

\* C4: on a running instance, once the destructor has written the stop
\* sentinel, the service thread leaves run() and the destructor returns.
C4_StopTerminates ==
  (cpc = "done" /\ dpc = "join") ~> (tpc = "exited" /\ dpc = "done")

C4_Witness ==
  /\ cpc = "done"
  /\ dpc = "done"
  /\ tpc = "exited"
  /\ expired # {}
  /\ \E t, u \in Clients :
       /\ cl[t].pc = "r_arm"
       /\ cl[u].pc = "idle" /\ cl[u].op = "reg" /\ cl[u].ret = "true"

\* C5: whenever the destructor has returned, is past the join, or a kernel
\* handle has been released, the service thread is not alive.
HandleReleased ==
  \/ evtfd # InvalidFd /\ evtfd \notin open
  \/ epfd # InvalidFd /\ epfd \notin open

C5_NoReleaseWhileThreadAlive ==
  (dpc \in {"close_evt", "close_ep", "done"} \/ HandleReleased) => ~ThreadAlive

C5_Witness ==
  /\ dpc = "done"
  /\ tpc = "exited"
  /\ HandleReleased
  /\ expired # {}

\* C6: an instance whose construction failed is safely destructible: its
\* destructor does not end in the join of a thread that was never started.
C6_FailedInstanceDestructible ==
  cpc = "failed" => dpc # "terminated"

\* C7: on an instance whose construction failed no service thread exists,
\* every finished registerTimer / unregisterTimer call has returned false,
\* and the map is empty whenever no call is in progress.
C7_FailedInstanceInert ==
  cpc = "failed" =>
    /\ tpc = "none"
    /\ \A t \in Clients : cl[t].ret \in {"none", "false"}
    /\ NoCallInProgress => Registered = {}

C7_Witness ==
  /\ cpc = "failed"
  /\ epfd = EpFdNo
  /\ \E t, u \in Clients :
       /\ cl[t].pc = "idle" /\ cl[t].op = "reg" /\ cl[t].ret = "false"
       /\ cl[u].pc = "idle" /\ cl[u].op = "unreg" /\ cl[u].ret = "false"

\* C8: a registerTimer call that returns without having armed its handle
\* returns false, and at its return the map has no entry for the handle.
ArmsNow(t) ==
  /\ FdOf(cl[t].c) \notin interest
  /\ FdOf(cl[t].c) \in interest'

C8_FailedArmRollsBack ==
  [][\A t \in Clients :
       (Returns(t) /\ cl[t].op = "reg" /\ ~ArmsNow(t)) =>
         (cl'[t].ret = "false" /\ FdOf(cl[t].c) \notin Registered')]_vars

C8_Witness ==
  \E t \in Clients :
    /\ cl[t].pc = "idle" /\ cl[t].op = "reg" /\ cl[t].ret = "false"
    /\ cpc = "done"
    /\ TimerFdNo \in ArmedTimers
    /\ TimerFdNo \notin Registered

\* C9: at the return of unregisterTimer the map has no entry for the handle,
\* and the call returns false exactly when the disarm failed.
C9_UnregisterAlwaysErases ==
  [][\A t \in Clients :
       (Returns(t) /\ cl[t].op = "unreg") =>
         /\ FdOf(cl[t].c) \notin Registered'
         /\ (cl'[t].ret = "false") <=> ~cl[t].ok
         /\ (cl'[t].ret = "true") <=> cl[t].ok]_vars

C9_Witness ==
  \E t, u \in Clients :
    /\ cl[t].pc = "idle" /\ cl[t].op = "unreg" /\ cl[t].ret = "false"
    /\ cl[u].pc = "idle" /\ cl[u].op = "unreg" /\ cl[u].ret = "true"
    /\ cpc = "done"

\* C10: after a short read of the counter the service thread is at the
\* continuation of its loop, having made and making no trigger call for
\* that event.
C10_ShortReadSkipsEvent ==
  (ev.fd # InvalidFd /\ ~ev.full) =>
    (tpc = "next" /\ ev.trig = 0 /\ ~ev.found /\ mtx = "free")

C10_Witness ==
  /\ tpc = "next"
  /\ ev.fd = TimerFdNo
  /\ ~ev.full
  /\ i < Len(evt)

\* C11: triggers are never crossed: while the service thread is inside a
\* trigger call made for an event of handle h, the container it passed is the
\* one that was found under h, and the map holds it under no other handle.
C11_TriggersNeverCrossed ==
  tpc = "trigger" =>
    /\ ev.arg = ev.cont
    /\ \A k \in Registered \ {ev.fd} : notify[k] # ev.arg

\* C12: in the build without __linux__ every registerTimer and
\* unregisterTimer call returns false and changes no state of the instance.
C12_PortableCallsFail ==
  [][\A t \in Clients :
       Returns(t) =>
         /\ cl'[t].ret = "false"
         /\ UNCHANGED <<epfd, evtfd, kernelVars, notify, mtx, threadVars>>]_vars

\* C13: once the constructor has returned, in a process that may set
\* real-time priorities, the living service thread runs at a priority
\* strictly below the priority of the hub's dispatch threads and strictly
\* above the default priority.
C13_PriorityBelowHub ==
  (cpc = "done" /\ ThreadAlive) =>
    (prio < ObserverRT_PRIO /\ prio > DefaultPrio)

\* C14: in every reachable state every timer handle armed in the epoll
\* instance has an entry in _notify.
C14_ArmedHandleInMap ==
  ArmedTimers \subseteq Registered

\* A call is between two of its steps: it has inserted, armed or disarmed
\* and has not returned.  A call that was entered and waits for _mtx has
\* taken no step yet.
BetweenSteps(t) == cl[t].pc \notin {"idle", "r_insert", "u_del"}

\* C15: registerTimer and unregisterTimer calls are serialized: no call is
\* between two of its steps while another call is between two of its own.
C15_CallsSerialized ==
  \A t, u \in Clients : (t # u /\ BetweenSteps(t)) => ~BetweenSteps(u)

\* C16: _notify is accessed under _mtx only: a step that changes the map
\* takes the lock for the change, and the service thread holds the lock when
\* it reads the entry it passes to trigger.
C16_MapAccessUnderLock ==
  [][/\ notify' # notify => mtx = "free"
     /\ (tpc = "call" /\ tpc' = "trigger") => mtx = "tor"]_vars

\* C17: whenever the service thread is inside DataObjectReactor::trigger,
\* _mtx is not held by it.
C17_NoLockDuringTrigger ==
  tpc = "trigger" => mtx # "tor"

C17_Witness ==
  /\ tpc = "trigger"
  /\ mtx = "free"
  /\ ev.fd \notin Registered
  /\ \E t \in Clients : cl[t].pc = "idle" /\ cl[t].op = "unreg" /\ cl[t].ret = "true"

\* C18: whenever the service thread has left run(), the destructor had
\* written the stop sentinel and the last thing the thread did was a full
\* read of the stop handle; nothing else ends the loop.
C18_ExitOnlyByStop ==
  tpc = "exited" =>
    /\ dpc # "idle"
    /\ ev.fd = evtfd
    /\ ev.full

C18_Witness ==
  /\ tpc = "exited"
  /\ dpc = "join"
  /\ i = 2
  /\ evt[1] \in TimerFds

\* C19: a full read of the stop handle ends run() at once; from then on the
\* thread takes no step (no trigger call, also not for timer events later in
\* the batch); and the loop index only moves on from the end of an
\* iteration, so events before the stop handle were handled first.
C19_NoTriggerAfterStop ==
  [][/\ (ev'.fd = EvtFdNo /\ ev'.full) => tpc' = "exited"
     /\ tpc = "exited" => UNCHANGED threadVars
     /\ (i > 0 /\ i' # i) => tpc = "next"]_vars

C19_Witness ==
  /\ tpc = "exited"
  /\ i < Len(evt)
  /\ evt[i + 1] \in expired
  /\ evt[i + 1] \in Registered

\* C20: a registerTimer call that returns false leaves _notify and the armed
\* set as they were before the call, also with no other call running beside
\* it: its handle has a map entry after the return exactly if it had one
\* when the call began, and the return leaves the armed set alone.
C20_FailedRegisterChangesNothing ==
  [][\A t \in Clients :
       (Returns(t) /\ cl[t].op = "reg" /\ cl'[t].ret = "false") =>
         /\ (FdOf(cl[t].c) \in Registered') = cl[t].had
         /\ interest' = interest]_vars

====
